---- MODULE Spec2Model ----
(***************************************************************************)
(* Model of RedisManager (api/script/redis-manager.ts): the response cache *)
(* kept in the ops database and the deployment metrics kept in the metrics *)
(* database of a Redis store.  Redis values are strings; every command of  *)
(* the store is executed atomically, and so is a MULTI/EXEC batch.        *)
(***************************************************************************)
EXTENDS Integers, Sequences, FiniteSets, TLC

(* ------------------------------ bounds --------------------------------- *)
\* number of store-mutating metrics calls explored in one behaviour
MaxOps == 2
\* number of client transitions explored in one behaviour
MaxMoves == 3
\* number of setCachedResponse calls explored in one behaviour
MaxCacheOps == 2
\* the latest time of the store's clock explored, in seconds
MaxNow == 3600
\* number of invalidateCache calls explored in one behaviour
MaxInvalidates == 1
\* number of writing calls explored in one behaviour of the whole manager
MaxManagerOps == 1
\* number of metrics calls handed out to concurrent callers in one behaviour
MaxCalls == 3
\* number of read-then-update sequences of the legacy path in one behaviour
MaxLegacy == 2
\* number of fragments a deployment key given to the key derivations is made of
MaxKeyParts == 2

(* --------------------------- program constants ------------------------- *)
DEPLOYMENT_SUCCEEDED == "DeploymentSucceeded"
DEPLOYMENT_FAILED == "DeploymentFailed"
ACTIVE == "Active"
DOWNLOADED == "Downloaded"
DEFAULT_EXPIRY == 3600

(* ------------------------------ JS values ------------------------------ *)
\* JavaScript null and undefined, kept apart from every string of the model
Null == "<null>"
Undefined == "<undefined>"

\* JavaScript truthiness of a string-or-absent value
Truthy(v) == v \notin {"", Null, Undefined}

\* conversion of a value inside a template literal `${v}`
TemplateStr(v) == IF v = Null THEN "null" ELSE IF v = Undefined THEN "undefined" ELSE v

\* the argument ioredis puts on the wire for a command argument
ToArg(v) == IF v \in {Null, Undefined} THEN "" ELSE v

\* a JavaScript number that is an integer, and NaN
Num(n) == [kind |-> "number", value |-> n]
NaN == [kind |-> "NaN"]

(* ----------------------------- input domains --------------------------- *)
DeploymentKeys == {"A", "B"}
Labels == {"", "v1"}
\* the labels clients are moved between
MoveLabels == {"v1", "v2"}
Statuses == {DEPLOYMENT_SUCCEEDED, DEPLOYMENT_FAILED, DOWNLOADED, ACTIVE, "bogus"}
Clients == {"c1"}
MoveClients == {"c1", "c2"}
\* optional arguments: absent (undefined) or given
OptDeploymentKeys == DeploymentKeys \cup {Undefined}
OptLabels == Labels \cup {Undefined}

(* ------------------------------ Utilities ------------------------------ *)
\* a status check that also lets Active through
isValidDeploymentStatusOrActive(status) ==
    status \in {DEPLOYMENT_SUCCEEDED, DEPLOYMENT_FAILED, DOWNLOADED, ACTIVE}

isValidDeploymentStatus(status) ==
    status = DEPLOYMENT_SUCCEEDED \/ status = DEPLOYMENT_FAILED \/ status = DOWNLOADED

getLabelStatusField(label, status) ==
    IF isValidDeploymentStatus(status)
    THEN TemplateStr(label) \o ":" \o TemplateStr(status)
    ELSE Null

getLabelActiveCountField(label) ==
    IF Truthy(label) THEN TemplateStr(label) \o ":" \o ACTIVE ELSE Null

getDeploymentKeyHash(deploymentKey) == "deploymentKey:" \o TemplateStr(deploymentKey)

\* a labels-hash key that leaves the deployment key out
getDeploymentKeyLabelsHashShared(deploymentKey) == "deploymentKeyLabels:"

getDeploymentKeyLabelsHash(deploymentKey) == "deploymentKeyLabels:" \o TemplateStr(deploymentKey)

\* a clients-hash key built with the prefix of the labels hash
getDeploymentKeyClientsHashAsLabels(deploymentKey) == "deploymentKeyLabels:" \o TemplateStr(deploymentKey)

getDeploymentKeyClientsHash(deploymentKey) == "deploymentKeyClients:" \o TemplateStr(deploymentKey)

(* --------------------------- decimal strings --------------------------- *)
IsDigit(c) == c \in {"0", "1", "2", "3", "4", "5", "6", "7", "8", "9"}

DigitVal(c) ==
    CASE c = "0" -> 0 [] c = "1" -> 1 [] c = "2" -> 2 [] c = "3" -> 3 [] c = "4" -> 4
      [] c = "5" -> 5 [] c = "6" -> 6 [] c = "7" -> 7 [] c = "8" -> 8 [] c = "9" -> 9

DigitChar(n) ==
    CASE n = 0 -> "0" [] n = 1 -> "1" [] n = 2 -> "2" [] n = 3 -> "3" [] n = 4 -> "4"
      [] n = 5 -> "5" [] n = 6 -> "6" [] n = 7 -> "7" [] n = 8 -> "8" [] n = 9 -> "9"

RECURSIVE AllDigits(_)
AllDigits(s) == s = "" \/ (IsDigit(Head(s)) /\ AllDigits(Tail(s)))

RECURSIVE DigitsValue(_, _)
DigitsValue(s, acc) ==
    IF s = "" THEN acc ELSE DigitsValue(Tail(s), acc * 10 + DigitVal(Head(s)))

\* the longest prefix of s made of decimal digits
RECURSIVE DigitPrefix(_)
DigitPrefix(s) ==
    IF s = "" \/ ~IsDigit(Head(s)) THEN "" ELSE Head(s) \o DigitPrefix(Tail(s))

RECURSIVE NatToDecimal(_)
NatToDecimal(n) ==
    IF n < 10 THEN DigitChar(n) ELSE NatToDecimal(n \div 10) \o DigitChar(n % 10)

\* the decimal string the store keeps for an integer
ToDecimal(n) == IF n < 0 THEN "-" \o NatToDecimal(-n) ELSE NatToDecimal(n)

\* the store's strict integer syntax: what HINCRBY accepts as a stored value
IsStoredInteger(s) ==
    LET body == IF s # "" /\ Head(s) = "-" THEN Tail(s) ELSE s
    IN  /\ body # ""
        /\ AllDigits(body)
        /\ (Len(body) > 1 => Head(body) # "0")
        /\ s # "-0"

StoredIntegerValue(s) ==
    IF Head(s) = "-" THEN 0 - DigitsValue(Tail(s), 0) ELSE DigitsValue(s, 0)

IsWhiteSpace(c) == c \in {" ", "\t", "\n", "\r"}

RECURSIVE TrimStart(_)
TrimStart(s) == IF s # "" /\ IsWhiteSpace(Head(s)) THEN TrimStart(Tail(s)) ELSE s

\* JavaScript parseInt(s, 10)
parseInt(s) ==
    LET t == TrimStart(s)
        negative == t # "" /\ Head(t) = "-"
        unsigned == IF t # "" /\ Head(t) \in {"-", "+"} THEN Tail(t) ELSE t
        digits == DigitPrefix(unsigned)
    IN  IF digits = "" THEN NaN
        ELSE Num(IF negative THEN 0 - DigitsValue(digits, 0) ELSE DigitsValue(digits, 0))

(* -------------------------------- JSON --------------------------------- *)
\* JavaScript values a response is made of
JNull == [t |-> "null"]
JBool(b) == [t |-> "boolean", b |-> b]
JNum(n) == [t |-> "number", n |-> n]
JStr(s) == [t |-> "string", s |-> s]
JArr(items) == [t |-> "array", items |-> items]
\* an object: its members <<name, value>> in insertion order
JObj(members) == [t |-> "object", members |-> members]

\* a CacheableResponse
Response(statusCode, body) == JObj(<< <<"statusCode", JNum(statusCode)>>, <<"body", body>> >>)

\* string escaping of JSON.stringify: the quote and the backslash
RECURSIVE Escape(_)
Escape(s) ==
    IF s = "" THEN ""
    ELSE IF Head(s) = "\"" THEN "\\\"" \o Escape(Tail(s))
    ELSE IF Head(s) = "\\" THEN "\\\\" \o Escape(Tail(s))
    ELSE Head(s) \o Escape(Tail(s))

\* a string written between quotes without escaping
QuoteRaw(s) == "\"" \o s \o "\""

Quote(s) == "\"" \o Escape(s) \o "\""

RECURSIVE jsonStringify(_), StringifyItems(_), StringifyMembers(_)
jsonStringify(v) ==
    CASE v.t = "null" -> "null"
      [] v.t = "boolean" -> (IF v.b THEN "true" ELSE "false")
      [] v.t = "number" -> ToDecimal(v.n)
      [] v.t = "string" -> Quote(v.s)
      [] v.t = "array" -> "[" \o StringifyItems(v.items) \o "]"
      [] v.t = "object" -> "{" \o StringifyMembers(v.members) \o "}"

StringifyItems(items) ==
    IF items = <<>> THEN ""
    ELSE jsonStringify(Head(items))
         \o (IF Tail(items) = <<>> THEN "" ELSE "," \o StringifyItems(Tail(items)))

StringifyMembers(members) ==
    IF members = <<>> THEN ""
    ELSE Quote(Head(members)[1]) \o ":" \o jsonStringify(Head(members)[2])
         \o (IF Tail(members) = <<>> THEN "" ELSE "," \o StringifyMembers(Tail(members)))

\* a parser's result: the value read and the text left, or a syntax error
Parsed(v, rest) == [ok |-> TRUE, value |-> v, rest |-> rest]
SyntaxError == [ok |-> FALSE]

StartsWith(s, prefix) == Len(s) >= Len(prefix) /\ SubSeq(s, 1, Len(prefix)) = prefix
DropPrefix(s, n) == SubSeq(s, n + 1, Len(s))

\* the characters of a string literal after its opening quote
RECURSIVE ParseStringBody(_, _)
ParseStringBody(s, acc) ==
    IF s = "" THEN SyntaxError
    ELSE IF Head(s) = "\"" THEN Parsed(acc, Tail(s))
    ELSE IF Head(s) = "\\"
         THEN IF Tail(s) # "" /\ Head(Tail(s)) \in {"\"", "\\"}
              THEN ParseStringBody(Tail(Tail(s)), acc \o Head(Tail(s)))
              ELSE SyntaxError
    ELSE ParseStringBody(Tail(s), acc \o Head(s))

ParseNumber(s) ==
    LET negative == Head(s) = "-"
        unsigned == IF negative THEN Tail(s) ELSE s
        digits == DigitPrefix(unsigned)
    IN  IF digits = "" \/ (Len(digits) > 1 /\ Head(digits) = "0") THEN SyntaxError
        ELSE Parsed(JNum(IF negative THEN 0 - DigitsValue(digits, 0) ELSE DigitsValue(digits, 0)),
                    DropPrefix(unsigned, Len(digits)))

RECURSIVE ParseValue(_), ParseItems(_, _), ParseMembers(_, _)
ParseValue(s) ==
    IF s = "" THEN SyntaxError
    ELSE IF StartsWith(s, "null") THEN Parsed(JNull, DropPrefix(s, 4))
    ELSE IF StartsWith(s, "true") THEN Parsed(JBool(TRUE), DropPrefix(s, 4))
    ELSE IF StartsWith(s, "false") THEN Parsed(JBool(FALSE), DropPrefix(s, 5))
    ELSE IF Head(s) = "\""
         THEN LET r == ParseStringBody(Tail(s), "")
              IN  IF r.ok THEN Parsed(JStr(r.value), r.rest) ELSE SyntaxError
    ELSE IF Head(s) = "[" THEN
              IF StartsWith(s, "[]") THEN Parsed(JArr(<<>>), DropPrefix(s, 2))
              ELSE ParseItems(Tail(s), <<>>)
    ELSE IF Head(s) = "{" THEN
              IF StartsWith(s, "{}") THEN Parsed(JObj(<<>>), DropPrefix(s, 2))
              ELSE ParseMembers(Tail(s), <<>>)
    ELSE IF Head(s) = "-" \/ IsDigit(Head(s)) THEN ParseNumber(s)
    ELSE SyntaxError

\* the items of an array after "[" or ","
ParseItems(s, acc) ==
    LET item == ParseValue(s)
    IN  IF ~item.ok \/ item.rest = "" THEN SyntaxError
        ELSE IF Head(item.rest) = "]" THEN Parsed(JArr(Append(acc, item.value)), Tail(item.rest))
        ELSE IF Head(item.rest) = "," THEN ParseItems(Tail(item.rest), Append(acc, item.value))
        ELSE SyntaxError

\* the members of an object after "{" or ","
ParseMembers(s, acc) ==
    IF s = "" \/ Head(s) # "\"" THEN SyntaxError
    ELSE LET name == ParseStringBody(Tail(s), "")
         IN  IF ~name.ok \/ name.rest = "" \/ Head(name.rest) # ":" THEN SyntaxError
             ELSE LET member == ParseValue(Tail(name.rest))
                      all == Append(acc, <<name.value, member.value>>)
                  IN  IF ~member.ok \/ member.rest = "" THEN SyntaxError
                      ELSE IF Head(member.rest) = "}" THEN Parsed(JObj(all), Tail(member.rest))
                      ELSE IF Head(member.rest) = "," THEN ParseMembers(Tail(member.rest), all)
                      ELSE SyntaxError

\* JSON.parse: the whole text must be one value
jsonParse(s) ==
    LET r == ParseValue(s)
    IN  IF r.ok /\ r.rest = "" THEN r ELSE SyntaxError

(* ------------------------- the store's commands ------------------------ *)
\* a database maps each existing key to its hash; a hash maps fields to strings
EmptyDb == [k \in {} |-> [f \in {} |-> ""]]
EmptyHash == [f \in {} |-> ""]

HashAt(db, key) == IF key \in DOMAIN db THEN db[key] ELSE EmptyHash

PutKey(db, key, hash) == [k \in DOMAIN db \cup {key} |-> IF k = key THEN hash ELSE db[k]]

DropKeys(db, keys) == [k \in DOMAIN db \ keys |-> db[k]]

Exists(db, key) == key \in DOMAIN db

HGet(db, key, field) ==
    IF field \in DOMAIN HashAt(db, key) THEN HashAt(db, key)[field] ELSE Null

HGetAll(db, key) == HashAt(db, key)

\* an HSET that keeps the value of a field that exists
HSetIfAbsent(db, key, field, value) ==
    LET h == HashAt(db, key)
    IN  PutKey(db, key, [f \in DOMAIN h \cup {field} |-> IF f \in DOMAIN h THEN h[f] ELSE value])

HSet(db, key, field, value) ==
    LET h == HashAt(db, key)
    IN  PutKey(db, key, [f \in DOMAIN h \cup {field} |-> IF f = field THEN value ELSE h[f]])

HDel(db, key, field) ==
    LET h == HashAt(db, key)
        rest == [f \in DOMAIN h \ {field} |-> h[f]]
    IN  IF DOMAIN rest = {} THEN DropKeys(db, {key}) ELSE PutKey(db, key, rest)

Del(db, keys) == DropKeys(db, keys)

\* an increment that overwrites the stored value instead of adding to it
HIncrByOverwrite(db, key, field, delta) == HSet(db, key, field, ToDecimal(delta))

\* HINCRBY: a missing field counts from 0; a stored value that is not an
\* integer makes the command fail and leaves the database as it was
HIncrBy(db, key, field, delta) ==
    LET h == HashAt(db, key)
        old == IF field \in DOMAIN h THEN h[field] ELSE "0"
    IN  IF IsStoredInteger(old)
        THEN HSet(db, key, field, ToDecimal(StoredIntegerValue(old) + delta))
        ELSE db

\* commands queued on a MULTI
CmdHIncrBy(key, field, delta) == [cmd |-> "hincrby", key |-> key, field |-> ToArg(field), delta |-> delta]
CmdHSet(key, field, value) == [cmd |-> "hset", key |-> key, field |-> ToArg(field), value |-> ToArg(value)]

ExecCommand(db, c) ==
    IF c.cmd = "hincrby" THEN HIncrBy(db, c.key, c.field, c.delta)
    ELSE HSet(db, c.key, c.field, c.value)

RECURSIVE ApplyAll(_, _)
ApplyAll(db, cmds) ==
    IF cmds = <<>> THEN db ELSE ApplyAll(ExecCommand(db, Head(cmds)), Tail(cmds))

\* a batch that stops after its first command
MultiExecFirstOnly(db, cmds) ==
    IF cmds = <<>> THEN db ELSE ExecCommand(db, Head(cmds))

\* EXEC: the queued commands run in order as one step of the store
MultiExec(db, cmds) == ApplyAll(db, cmds)

(* ------------------------------- state --------------------------------- *)
VARIABLES
    isEnabled,    \* RedisManager._isEnabled, fixed by the constructor
    metricsDb,    \* the metrics database: key -> hash
    opsDb,        \* the ops database holding cached responses: key -> hash
    expireAt,     \* the expiry deadline of each ops key that has one
    now,          \* the store's clock, in seconds
    setCall,      \* the setCachedResponse calls in flight
    lastOp,       \* the last call that completed: name, arguments, result
    nOps,         \* number of calls so far that sent a write to the store
    nInc,         \* history: increments of valid status per counter since the last clear
    nCur,         \* history: recordUpdate batches per current pair since the last clear
    where,        \* history: the (deployment, label) each client is counted at
    obs,          \* the readMetrics results an observer has collected
    movedBetween, \* history: a transition committed between the observer's reads
    written,      \* history: per (scope key, url) the response last written and by which call
    born,         \* history: per live scope key the call that created it, when it finished, its EXPIREs
    purged,       \* history: per scope key the urls an invalidateCache removed, no set started since
    nInv,         \* number of invalidateCache calls so far
    batch,        \* the metrics calls of a set of callers, in the order they were handed out
    pending,      \* the calls of the batch not yet sent to the store
    legacyCall    \* the read-then-update sequences of the legacy path in flight

vars == <<isEnabled, metricsDb, opsDb, expireAt, now, setCall, lastOp, nOps, nInc, nCur,
          where, obs, movedBetween, written, born, purged, nInv, batch, pending, legacyCall>>

metricsVars == <<metricsDb, lastOp, nOps, nInc, nCur>>
cacheVars == <<opsDb, expireAt, now, setCall, written, born, purged, nInv>>
moveVars == <<where, obs, movedBetween>>
scenarioVars == <<batch, pending, legacyCall>>

ValidStatuses == {"DeploymentSucceeded", "DeploymentFailed", "Downloaded"}
NoOp == [op |-> "none"]
NoClient == <<>>
Pending == [kind |-> "pending"]
Resolved(v) == [kind |-> "resolved", value |-> v]
Rejected(e) == [kind |-> "rejected", error |-> e]

(* ------------------------- Metrics Ledger: effects --------------------- *)
\* the parsing loop of getMetricsWithDeploymentKey
ParseMetrics(raw) == [key \in DOMAIN raw |-> parseInt(raw[key])]

getMetricsResult(db, deploymentKey) ==
    ParseMetrics(HGetAll(db, getDeploymentKeyLabelsHash(deploymentKey)))

\* the previous pair takes part in the batch when both parts are given
HasPreviousEither(previousDeploymentKey, previousLabel) ==
    Truthy(previousDeploymentKey) \/ Truthy(previousLabel)

HasPrevious(previousDeploymentKey, previousLabel) ==
    Truthy(previousDeploymentKey) /\ Truthy(previousLabel)

\* a batch that never takes the client off its previous pair
recordUpdateBatchNoDecrement(currentDeploymentKey, currentLabel, previousDeploymentKey, previousLabel) ==
    LET currentHash == getDeploymentKeyLabelsHash(currentDeploymentKey)
    IN  <<CmdHIncrBy(currentHash, getLabelActiveCountField(currentLabel), 1),
          CmdHIncrBy(currentHash, getLabelStatusField(currentLabel, DEPLOYMENT_SUCCEEDED), 1)>>

recordUpdateBatch(currentDeploymentKey, currentLabel, previousDeploymentKey, previousLabel) ==
    LET currentHash == getDeploymentKeyLabelsHash(currentDeploymentKey)
        previousHash == getDeploymentKeyLabelsHash(previousDeploymentKey)
    IN  <<CmdHIncrBy(currentHash, getLabelActiveCountField(currentLabel), 1),
          CmdHIncrBy(currentHash, getLabelStatusField(currentLabel, DEPLOYMENT_SUCCEEDED), 1)>>
        \o (IF HasPrevious(previousDeploymentKey, previousLabel)
            THEN <<CmdHIncrBy(previousHash, getLabelActiveCountField(previousLabel), -1)>>
            ELSE <<>>)

updateActiveAppBatch(deploymentKey, clientUniqueId, toLabel, fromLabel) ==
    LET deploymentKeyClientsHash == getDeploymentKeyClientsHash(deploymentKey)
        deploymentKeyLabelsHash == getDeploymentKeyLabelsHash(deploymentKey)
    IN  <<CmdHSet(deploymentKeyClientsHash, clientUniqueId, toLabel),
          CmdHIncrBy(deploymentKeyLabelsHash, getLabelActiveCountField(toLabel), 1)>>
        \o (IF Truthy(fromLabel)
            THEN <<CmdHIncrBy(deploymentKeyLabelsHash, getLabelActiveCountField(fromLabel), -1)>>
            ELSE <<>>)

\* the keys one DEL of clearMetricsForDeploymentKey names
clearKeysLabelsOnly(deploymentKey) == {getDeploymentKeyLabelsHash(deploymentKey)}

clearKeys(deploymentKey) ==
    {getDeploymentKeyLabelsHash(deploymentKey), getDeploymentKeyClientsHash(deploymentKey)}

(* ------------------------- Metrics Ledger: calls ----------------------- *)
\* the record of a completed call; sent is the number of commands it sent to the store
Done(op, args, result, sent) == [op |-> op, args |-> args, result |-> result, sent |-> sent]

incrementLabelStatusCount(deploymentKey, label, status) ==
    LET hash == getDeploymentKeyLabelsHash(deploymentKey)
        field == getLabelStatusField(label, status)
        writes == isEnabled /\ Truthy(field)
    IN  /\ metricsDb' = IF writes THEN HIncrBy(metricsDb, hash, ToArg(field), 1) ELSE metricsDb
        /\ nOps' = IF writes THEN nOps + 1 ELSE nOps
        /\ nInc' = IF isEnabled /\ status \in ValidStatuses
                   THEN [nInc EXCEPT ![<<deploymentKey, label, status>>] = @ + 1]
                   ELSE nInc
        /\ lastOp' = Done("incrementLabelStatusCount", <<deploymentKey, label, status>>, Resolved(Undefined),
                      IF writes THEN 1 ELSE 0)
        /\ UNCHANGED <<isEnabled, nCur>>

clearMetricsForDeploymentKey(deploymentKey) ==
    /\ metricsDb' = IF isEnabled THEN Del(metricsDb, clearKeys(deploymentKey)) ELSE metricsDb
    /\ nOps' = IF isEnabled THEN nOps + 1 ELSE nOps
    /\ nInc' = IF isEnabled THEN [t \in DOMAIN nInc |-> IF t[1] = deploymentKey THEN 0 ELSE nInc[t]] ELSE nInc
    /\ nCur' = IF isEnabled THEN [t \in DOMAIN nCur |-> IF t[1] = deploymentKey THEN 0 ELSE nCur[t]] ELSE nCur
    /\ lastOp' = [op |-> "clearMetricsForDeploymentKey", args |-> <<deploymentKey>>,
                  result |-> Resolved(Undefined),
                  sent |-> IF isEnabled THEN 1 ELSE 0,
                  reply |-> IF isEnabled
                            THEN Cardinality(clearKeys(deploymentKey) \cap DOMAIN metricsDb)
                            ELSE 0]
    /\ UNCHANGED isEnabled

getMetricsWithDeploymentKey(deploymentKey) ==
    /\ lastOp' = Done("getMetricsWithDeploymentKey", <<deploymentKey>>,
                      IF isEnabled THEN Resolved(getMetricsResult(metricsDb, deploymentKey))
                      ELSE Resolved(Null),
                      IF isEnabled THEN 1 ELSE 0)
    /\ UNCHANGED <<isEnabled, metricsDb, nOps, nInc, nCur>>

recordUpdate(currentDeploymentKey, currentLabel, previousDeploymentKey, previousLabel) ==
    /\ metricsDb' = IF isEnabled
                    THEN MultiExec(metricsDb, recordUpdateBatch(currentDeploymentKey, currentLabel,
                                                                previousDeploymentKey, previousLabel))
                    ELSE metricsDb
    /\ nOps' = IF isEnabled THEN nOps + 1 ELSE nOps
    /\ nCur' = IF isEnabled
               THEN [nCur EXCEPT ![<<currentDeploymentKey, currentLabel>>] = @ + 1]
               ELSE nCur
    /\ lastOp' = Done("recordUpdate",
                      <<currentDeploymentKey, currentLabel, previousDeploymentKey, previousLabel>>,
                      Resolved(Undefined),
                      IF isEnabled
                      THEN Len(recordUpdateBatch(currentDeploymentKey, currentLabel,
                                                 previousDeploymentKey, previousLabel))
                      ELSE 0)
    /\ UNCHANGED <<isEnabled, nInc>>

removeDeploymentKeyClientActiveLabel(deploymentKey, clientUniqueId) ==
    /\ metricsDb' = IF isEnabled
                    THEN HDel(metricsDb, getDeploymentKeyClientsHash(deploymentKey), clientUniqueId)
                    ELSE metricsDb
    /\ nOps' = IF isEnabled THEN nOps + 1 ELSE nOps
    /\ lastOp' = Done("removeDeploymentKeyClientActiveLabel", <<deploymentKey, clientUniqueId>>,
                      Resolved(Undefined),
                      IF isEnabled THEN 1 ELSE 0)
    /\ UNCHANGED <<isEnabled, nInc, nCur>>

getCurrentActiveLabel(deploymentKey, clientUniqueId) ==
    /\ lastOp' = Done("getCurrentActiveLabel", <<deploymentKey, clientUniqueId>>,
                      IF isEnabled
                      THEN Resolved(HGet(metricsDb, getDeploymentKeyClientsHash(deploymentKey), clientUniqueId))
                      ELSE Resolved(Null),
                      IF isEnabled THEN 1 ELSE 0)
    /\ UNCHANGED <<isEnabled, metricsDb, nOps, nInc, nCur>>

updateActiveAppForClient(deploymentKey, clientUniqueId, toLabel, fromLabel) ==
    /\ metricsDb' = IF isEnabled
                    THEN MultiExec(metricsDb, updateActiveAppBatch(deploymentKey, clientUniqueId, toLabel, fromLabel))
                    ELSE metricsDb
    /\ nOps' = IF isEnabled THEN nOps + 1 ELSE nOps
    /\ lastOp' = Done("updateActiveAppForClient", <<deploymentKey, clientUniqueId, toLabel, fromLabel>>,
                      Resolved(Undefined),
                      IF isEnabled
                      THEN Len(updateActiveAppBatch(deploymentKey, clientUniqueId, toLabel, fromLabel))
                      ELSE 0)
    /\ UNCHANGED <<isEnabled, nInc, nCur>>

(* ----------------------------- Cache Store ----------------------------- *)
SetProcs == {"p1", "p2"}
LegacyProcs == {"q1", "q2"}
ScopeKeys == {getDeploymentKeyHash(d) : d \in DeploymentKeys}
Urls == {"/a", "/b"}
ResponseOk == Response(200, JObj(<< <<"x", JArr(<<JNum(1), JNum(-20)>>)>>, <<"y", JStr("a\"b\\")>> >>))
ResponseNotFound == Response(404, JNull)
\* the setCachedResponse calls explored: <<expiryKey, url, response>>
SetInputs ==
    {<<getDeploymentKeyHash("A"), "/a", ResponseOk>>,
     <<getDeploymentKeyHash("A"), "/a", ResponseNotFound>>,
     <<getDeploymentKeyHash("A"), "/b", ResponseOk>>,
     <<getDeploymentKeyHash("B"), "/a", ResponseNotFound>>}
\* the call a second caller makes while the first one's call is in flight
SecondSetInputs == {<<getDeploymentKeyHash("A"), "/a", ResponseNotFound>>}
\* the amounts of time the clock advances by in one step
TickSteps == {DEFAULT_EXPIRY \div 2, DEFAULT_EXPIRY}

Idle == [pc |-> "idle"]

\* EXPIRE: sets the deadline of an existing key, does nothing for a missing one
Expire(deadlines, db, key, seconds, time) ==
    IF Exists(db, key)
    THEN [k \in DOMAIN deadlines \cup {key} |-> IF k = key THEN time + seconds ELSE deadlines[k]]
    ELSE deadlines

\* the deadlines left once some keys are gone
DropDeadlines(deadlines, keys) == [k \in DOMAIN deadlines \ keys |-> deadlines[k]]

\* the keys whose deadline has passed at a given time
ExpiredKeys(deadlines, time) == {k \in DOMAIN deadlines : deadlines[k] <= time}

\* what getCachedResponse resolves or rejects with for a database
getCachedResponseResult(db, expiryKey, url) ==
    LET serialized == HGet(db, expiryKey, url)
    IN  IF Truthy(serialized)
        THEN IF jsonParse(serialized).ok
             THEN Resolved(jsonParse(serialized).value)
             ELSE Rejected("SyntaxError")
        ELSE Resolved(JNull)

getCachedResponse(expiryKey, url) ==
    /\ lastOp' = Done("getCachedResponse", <<expiryKey, url>>,
                      IF isEnabled THEN getCachedResponseResult(opsDb, expiryKey, url)
                      ELSE Resolved(JNull),
                      IF isEnabled THEN 1 ELSE 0)
    /\ UNCHANGED <<isEnabled, metricsDb, nOps, nInc, nCur, cacheVars, moveVars, scenarioVars>>

\* history: the entries of key k no longer stand once the key is gone
ForgetKeys(hist, keys) == [e \in {x \in DOMAIN hist : x[1] \notin keys} |-> hist[e]]

\* setCachedResponse up to its first await: the response is serialized and
\* the store answers EXISTS
setCachedResponse(p, expiryKey, url, response) ==
    /\ setCall[p] = Idle
    /\ IF isEnabled
       THEN /\ setCall' = [setCall EXCEPT ![p] =
                             [pc |-> "hset", expiryKey |-> expiryKey, url |-> url,
                              response |-> response,
                              serialized |-> jsonStringify(response),
                              isNewKey |-> ~Exists(opsDb, expiryKey)]]
            /\ nOps' = nOps + 1
            /\ purged' = [purged EXCEPT ![expiryKey] = {}]
            /\ UNCHANGED lastOp
       ELSE /\ lastOp' = Done("setCachedResponse", <<expiryKey, url>>, Resolved(Undefined), 0)
            /\ UNCHANGED <<setCall, nOps, purged>>
    /\ UNCHANGED <<isEnabled, metricsDb, nInc, nCur, opsDb, expireAt, now, written, born, nInv,
                   moveVars, scenarioVars>>

\* the store executes the call's HSET; the call is over unless the key was new
setHSet(p) ==
    LET c == setCall[p]
        e == <<c.expiryKey, c.url>>
        over == ~c.isNewKey
    IN  /\ c.pc = "hset"
        /\ opsDb' = HSet(opsDb, c.expiryKey, c.url, c.serialized)
        /\ written' = [x \in DOMAIN written \cup {e} |->
                          IF x = e THEN [response |-> c.response, by |-> p, completed |-> over]
                          ELSE written[x]]
        /\ born' = IF Exists(opsDb, c.expiryKey) THEN born
                   ELSE [k \in DOMAIN born \cup {c.expiryKey} |->
                            IF k = c.expiryKey
                            THEN [by |-> p, settled |-> IF over THEN now ELSE -1, expires |-> 0]
                            ELSE born[k]]
        /\ setCall' = [setCall EXCEPT ![p] = IF over THEN Idle ELSE [c EXCEPT !.pc = "expire"]]
        /\ lastOp' = IF over
                     THEN Done("setCachedResponse", <<c.expiryKey, c.url>>, Resolved(Undefined), 2)
                     ELSE lastOp
        /\ UNCHANGED <<isEnabled, metricsDb, nOps, nInc, nCur, expireAt, now, purged, nInv,
                       moveVars, scenarioVars>>

\* the store executes the call's EXPIRE and the call is over
setExpire(p) ==
    LET c == setCall[p]
        e == <<c.expiryKey, c.url>>
    IN  /\ c.pc = "expire"
        /\ expireAt' = Expire(expireAt, opsDb, c.expiryKey, DEFAULT_EXPIRY, now)
        /\ written' = IF e \in DOMAIN written /\ written[e].by = p
                      THEN [written EXCEPT ![e].completed = TRUE]
                      ELSE written
        /\ born' = IF c.expiryKey \in DOMAIN born
                   THEN [born EXCEPT ![c.expiryKey] =
                           [@ EXCEPT !.expires = @ + 1,
                                     !.settled = IF born[c.expiryKey].by = p /\ @ = -1 THEN now ELSE @]]
                   ELSE born
        /\ setCall' = [setCall EXCEPT ![p] = Idle]
        /\ lastOp' = Done("setCachedResponse", <<c.expiryKey, c.url>>, Resolved(Undefined), 3)
        /\ UNCHANGED <<isEnabled, metricsDb, nOps, nInc, nCur, opsDb, now, purged, nInv,
                       moveVars, scenarioVars>>

\* invalidateCache without its isEnabled guard
invalidateCacheUnguarded(expiryKey) ==
    /\ opsDb' = Del(opsDb, {expiryKey})
    /\ expireAt' = DropDeadlines(expireAt, {expiryKey})
    /\ written' = ForgetKeys(written, {expiryKey})
    /\ born' = DropDeadlines(born, {expiryKey})
    /\ purged' = [purged EXCEPT ![expiryKey] = @ \cup DOMAIN HashAt(opsDb, expiryKey)]
    /\ nInv' = nInv + 1
    /\ lastOp' = Done("invalidateCache", <<expiryKey>>, Resolved(Undefined), 1)
    /\ UNCHANGED <<isEnabled, metricsDb, nOps, nInc, nCur, now, setCall, moveVars, scenarioVars>>

invalidateCache(expiryKey) ==
    /\ opsDb' = IF isEnabled THEN Del(opsDb, {expiryKey}) ELSE opsDb
    /\ expireAt' = IF isEnabled THEN DropDeadlines(expireAt, {expiryKey}) ELSE expireAt
    /\ written' = IF isEnabled THEN ForgetKeys(written, {expiryKey}) ELSE written
    /\ born' = IF isEnabled THEN DropDeadlines(born, {expiryKey}) ELSE born
    /\ purged' = IF isEnabled
                 THEN [purged EXCEPT ![expiryKey] = @ \cup DOMAIN HashAt(opsDb, expiryKey)]
                 ELSE purged
    /\ nInv' = IF isEnabled THEN nInv + 1 ELSE nInv
    /\ lastOp' = Done("invalidateCache", <<expiryKey>>, Resolved(Undefined), IF isEnabled THEN 1 ELSE 0)
    /\ UNCHANGED <<isEnabled, metricsDb, nOps, nInc, nCur, now, setCall, moveVars, scenarioVars>>

\* time passes; the store removes the keys whose deadline has passed
tick(dt) ==
    LET gone == ExpiredKeys(expireAt, now + dt)
    IN  /\ now' = now + dt
        /\ opsDb' = DropKeys(opsDb, gone)
        /\ expireAt' = DropDeadlines(expireAt, gone)
        /\ written' = ForgetKeys(written, gone)
        /\ born' = DropDeadlines(born, gone)
        /\ UNCHANGED <<isEnabled, metricsDb, lastOp, nOps, nInc, nCur, setCall, purged, nInv,
                       moveVars, scenarioVars>>

(* ------------------- the Metrics Ledger under any calls ---------------- *)
InitHistory ==
    /\ expireAt = [k \in {} |-> 0]
    /\ now = 0
    /\ setCall = [p \in SetProcs |-> Idle]
    /\ written = [e \in {} |-> 0]
    /\ born = [k \in {} |-> 0]
    /\ purged = [k \in ScopeKeys |-> {}]
    /\ nInv = 0
    /\ legacyCall = [p \in LegacyProcs |-> Idle]
    /\ lastOp = NoOp
    /\ nOps = 0
    /\ nInc = [t \in DeploymentKeys \X (Labels \cup MoveLabels) \X ValidStatuses |-> 0]
    /\ nCur = [t \in DeploymentKeys \X (Labels \cup MoveLabels) |-> 0]
    /\ where = [c \in MoveClients |-> NoClient]
    /\ obs = <<>>
    /\ movedBetween = FALSE

InitRest ==
    /\ InitHistory
    /\ batch = <<>>
    /\ pending = {}

InitCommon ==
    /\ opsDb = EmptyDb
    /\ InitRest

Init ==
    /\ isEnabled \in BOOLEAN
    /\ metricsDb = EmptyDb
    /\ InitCommon

Next ==
    \/ \E d \in DeploymentKeys, l \in Labels, s \in Statuses :
          /\ nOps < MaxOps
          /\ incrementLabelStatusCount(d, l, s)
          /\ UNCHANGED <<cacheVars, moveVars, scenarioVars>>
    \/ \E d \in DeploymentKeys :
          /\ nOps < MaxOps
          /\ clearMetricsForDeploymentKey(d)
          /\ UNCHANGED <<cacheVars, moveVars, scenarioVars>>
    \/ \E d \in DeploymentKeys :
          /\ getMetricsWithDeploymentKey(d)
          /\ UNCHANGED <<cacheVars, moveVars, scenarioVars>>
    \/ \E d \in DeploymentKeys, l \in Labels, pd \in OptDeploymentKeys, pl \in OptLabels :
          /\ nOps < MaxOps
          /\ recordUpdate(d, l, pd, pl)
          /\ UNCHANGED <<cacheVars, moveVars, scenarioVars>>
    \/ \E d \in DeploymentKeys, c \in Clients :
          /\ nOps < MaxOps
          /\ removeDeploymentKeyClientActiveLabel(d, c)
          /\ UNCHANGED <<cacheVars, moveVars, scenarioVars>>
    \/ \E d \in DeploymentKeys, c \in Clients :
          /\ getCurrentActiveLabel(d, c)
          /\ UNCHANGED <<cacheVars, moveVars, scenarioVars>>
    \/ \E d \in DeploymentKeys, c \in Clients, to \in Labels, from \in OptLabels :
          /\ nOps < MaxOps
          /\ updateActiveAppForClient(d, c, to, from)
          /\ UNCHANGED <<cacheVars, moveVars, scenarioVars>>

Spec == Init /\ [][Next]_vars

(* ------------------- the Cache Store under any calls ------------------- *)
InitCache ==
    /\ isEnabled = TRUE
    /\ metricsDb = EmptyDb
    /\ InitCommon

NextCache ==
    \/ \E p \in SetProcs, in \in SetInputs :
          /\ nOps < MaxCacheOps
          /\ p = "p1" \/ (setCall["p1"] # Idle /\ in \in SecondSetInputs)
          /\ setCachedResponse(p, in[1], in[2], in[3])
    \/ \E p \in SetProcs : setHSet(p)
    \/ \E p \in SetProcs : setExpire(p)
    \/ \E k \in ScopeKeys, u \in Urls : getCachedResponse(k, u)
    \/ \E k \in ScopeKeys : nInv < MaxInvalidates /\ invalidateCache(k)
    \/ \E dt \in TickSteps : now + dt <= MaxNow /\ tick(dt)

SpecCache == InitCache /\ [][NextCache]_vars

(* ------------- every operation, manager enabled or disabled ------------ *)
checkHealth ==
    /\ lastOp' = Done("checkHealth", <<>>,
                      IF ~isEnabled THEN Rejected("Error: Redis manager is not enabled")
                      ELSE Resolved(Undefined),
                      IF isEnabled THEN 2 ELSE 0)
    /\ UNCHANGED <<isEnabled, metricsDb, nOps, nInc, nCur, cacheVars, moveVars, scenarioVars>>

\* what another instance of the server may have left in the two databases
LoadedMetrics ==
    PutKey(PutKey(EmptyDb, getDeploymentKeyLabelsHash("A"), ("v1:Active" :> "1")),
           getDeploymentKeyClientsHash("A"), ("c1" :> "v1"))
LoadedOps == PutKey(EmptyDb, getDeploymentKeyHash("A"), ("/a" :> jsonStringify(ResponseOk)))

InitManager ==
    /\ isEnabled \in BOOLEAN
    /\ metricsDb \in {EmptyDb, LoadedMetrics}
    /\ opsDb \in {EmptyDb, LoadedOps}
    /\ InitRest

NextManager ==
    \/ \E d \in DeploymentKeys, l \in Labels, s \in Statuses :
          /\ nOps + nInv < MaxManagerOps
          /\ incrementLabelStatusCount(d, l, s)
          /\ UNCHANGED <<cacheVars, moveVars, scenarioVars>>
    \/ \E d \in DeploymentKeys :
          /\ nOps + nInv < MaxManagerOps
          /\ clearMetricsForDeploymentKey(d)
          /\ UNCHANGED <<cacheVars, moveVars, scenarioVars>>
    \/ \E d \in DeploymentKeys :
          /\ getMetricsWithDeploymentKey(d)
          /\ UNCHANGED <<cacheVars, moveVars, scenarioVars>>
    \/ \E d \in DeploymentKeys, l \in Labels, pd \in OptDeploymentKeys, pl \in OptLabels :
          /\ nOps + nInv < MaxManagerOps
          /\ recordUpdate(d, l, pd, pl)
          /\ UNCHANGED <<cacheVars, moveVars, scenarioVars>>
    \/ \E d \in DeploymentKeys, c \in Clients :
          /\ nOps + nInv < MaxManagerOps
          /\ removeDeploymentKeyClientActiveLabel(d, c)
          /\ UNCHANGED <<cacheVars, moveVars, scenarioVars>>
    \/ \E d \in DeploymentKeys, c \in Clients :
          /\ getCurrentActiveLabel(d, c)
          /\ UNCHANGED <<cacheVars, moveVars, scenarioVars>>
    \/ \E d \in DeploymentKeys, c \in Clients, to \in Labels, from \in OptLabels :
          /\ nOps + nInv < MaxManagerOps
          /\ updateActiveAppForClient(d, c, to, from)
          /\ UNCHANGED <<cacheVars, moveVars, scenarioVars>>
    \/ \E in \in SetInputs :
          /\ nOps + nInv < MaxManagerOps
          /\ setCachedResponse("p1", in[1], in[2], in[3])
    \/ \E p \in SetProcs : setHSet(p)
    \/ \E p \in SetProcs : setExpire(p)
    \/ \E k \in ScopeKeys, u \in Urls : getCachedResponse(k, u)
    \/ \E k \in ScopeKeys : nOps + nInv < MaxManagerOps /\ invalidateCache(k)
    \/ checkHealth

SpecManager == InitManager /\ [][NextManager]_vars

(* --------------- clients moving between (deployment, label) ------------ *)
\* a counter of a readMetrics result, 0 when the field is absent
Count(metrics, field) == IF field \in DOMAIN metrics THEN metrics[field].value ELSE 0

RECURSIVE SumActiveOver(_, _)
SumActiveOver(metrics, labels) ==
    IF labels = {} THEN 0
    ELSE LET l == CHOOSE x \in labels : TRUE
         IN  Count(metrics, l \o ":" \o "Active") + SumActiveOver(metrics, labels \ {l})

\* the number of clients a readMetrics result counts as active
SumActive(metrics) == SumActiveOver(metrics, MoveLabels)

PreviousDeploymentKey(c) == IF where[c] = NoClient THEN Undefined ELSE where[c][1]
PreviousLabel(c) == IF where[c] = NoClient THEN Undefined ELSE where[c][2]

\* client c reports label l of deployment d; the caller passes the pair the
\* client was counted at, none on its first assignment
clientTransition(c, d, l) ==
    /\ nOps < MaxMoves
    /\ recordUpdate(d, l, PreviousDeploymentKey(c), PreviousLabel(c))
    /\ where' = [where EXCEPT ![c] = <<d, l>>]
    /\ movedBetween' = (movedBetween \/ Len(obs) = 1)
    /\ UNCHANGED <<obs, cacheVars, scenarioVars>>

\* an observer reads the metrics of the deployments one after the other
observerRead(d) ==
    /\ \A c \in MoveClients : where[c] # NoClient
    /\ getMetricsWithDeploymentKey(d)
    /\ IF Len(obs) = 1
       THEN /\ obs[1].deploymentKey # d
            /\ obs' = Append(obs, [deploymentKey |-> d, metrics |-> getMetricsResult(metricsDb, d)])
            /\ UNCHANGED movedBetween
       ELSE /\ obs' = <<[deploymentKey |-> d, metrics |-> getMetricsResult(metricsDb, d)]>>
            /\ movedBetween' = FALSE
    /\ UNCHANGED <<where, cacheVars, scenarioVars>>

InitMove ==
    /\ isEnabled = TRUE
    /\ metricsDb = EmptyDb
    /\ InitCommon

NextMove ==
    \/ \E c \in MoveClients, d \in DeploymentKeys, l \in MoveLabels : clientTransition(c, d, l)
    \/ \E d \in DeploymentKeys : observerRead(d)

SpecMove == InitMove /\ [][NextMove]_vars

(* ------------- readMetrics over a store written by any writer ---------- *)
\* values another writer may have left in a labels hash
RawValues == {"7", "-3", "abc", "12abc", "", " 5", "1.5"}
RawFields == {"v1:Active", "v1:Downloaded"}
RawHashes == UNION {[fields -> RawValues] : fields \in SUBSET RawFields}

InitParse ==
    /\ isEnabled = TRUE
    /\ \E raw \in RawHashes :
          metricsDb = IF raw = EmptyHash THEN EmptyDb
                      ELSE PutKey(EmptyDb, "deploymentKeyLabels:A", raw)
    /\ InitCommon

NextParse ==
    \E d \in DeploymentKeys :
        getMetricsWithDeploymentKey(d) /\ UNCHANGED <<cacheVars, moveVars, scenarioVars>>

SpecParse == InitParse /\ [][NextParse]_vars

(* -------- a set of metrics calls sent to the store in any order -------- *)
Call(op, args) == [op |-> op, args |-> args]

\* the calls the callers may hold
CallSet ==
    {Call("incrementLabelStatusCount", <<"A", "v1", DEPLOYMENT_SUCCEEDED>>),
     Call("incrementLabelStatusCount", <<"A", "v1", DOWNLOADED>>),
     Call("incrementLabelStatusCount", <<"B", "v1", "bogus">>),
     Call("recordUpdate", <<"A", "v1", Undefined, Undefined>>),
     Call("recordUpdate", <<"B", "v1", "A", "v1">>),
     Call("recordUpdate", <<"A", "v1", "B", "v1">>),
     Call("recordUpdate", <<"A", "v2", "A", Null>>)}

\* the commands a call sends to the metrics database
CallCommands(call) ==
    IF call.op = "incrementLabelStatusCount"
    THEN LET hash == getDeploymentKeyLabelsHash(call.args[1])
             field == getLabelStatusField(call.args[2], call.args[3])
         IN  IF Truthy(field) THEN <<CmdHIncrBy(hash, field, 1)>> ELSE <<>>
    ELSE recordUpdateBatch(call.args[1], call.args[2], call.args[3], call.args[4])

\* caller i sends its incrementLabelStatusCount
sendIncrement(i) ==
    /\ i \in pending
    /\ batch[i].op = "incrementLabelStatusCount"
    /\ incrementLabelStatusCount(batch[i].args[1], batch[i].args[2], batch[i].args[3])
    /\ pending' = pending \ {i}
    /\ UNCHANGED <<batch, legacyCall, cacheVars, moveVars>>

\* caller i sends its recordUpdate
sendRecordUpdate(i) ==
    /\ i \in pending
    /\ batch[i].op = "recordUpdate"
    /\ recordUpdate(batch[i].args[1], batch[i].args[2], batch[i].args[3], batch[i].args[4])
    /\ pending' = pending \ {i}
    /\ UNCHANGED <<batch, legacyCall, cacheVars, moveVars>>

InitOrder ==
    /\ isEnabled = TRUE
    /\ metricsDb = EmptyDb
    /\ opsDb = EmptyDb
    /\ InitHistory
    /\ batch \in UNION {[1..n -> CallSet] : n \in 0..MaxCalls}
    /\ pending = DOMAIN batch

NextOrder ==
    \/ \E i \in DOMAIN batch : sendIncrement(i)
    \/ \E i \in DOMAIN batch : sendRecordUpdate(i)

SpecOrder == InitOrder /\ [][NextOrder]_vars

(* ----------- the legacy path: read the label, then update it ----------- *)
\* the sequences started so far: those completed and those in flight
Started == nOps + Cardinality({q \in LegacyProcs : legacyCall[q] # Idle})

\* caller q reads the label the clients hash holds for the client
legacyRead(q, deploymentKey, clientUniqueId, toLabel) ==
    /\ legacyCall[q] = Idle
    /\ Started < MaxLegacy
    /\ getCurrentActiveLabel(deploymentKey, clientUniqueId)
    /\ legacyCall' = [legacyCall EXCEPT ![q] =
                         [pc |-> "update", deploymentKey |-> deploymentKey,
                          clientUniqueId |-> clientUniqueId, toLabel |-> toLabel,
                          fromLabel |-> HGet(metricsDb, getDeploymentKeyClientsHash(deploymentKey),
                                             clientUniqueId)]]
    /\ UNCHANGED <<batch, pending, cacheVars, moveVars>>

\* caller q calls updateActiveAppForClient with the label it read
legacyUpdate(q) ==
    /\ legacyCall[q] # Idle
    /\ updateActiveAppForClient(legacyCall[q].deploymentKey, legacyCall[q].clientUniqueId,
                                legacyCall[q].toLabel, legacyCall[q].fromLabel)
    /\ legacyCall' = [legacyCall EXCEPT ![q] = Idle]
    /\ UNCHANGED <<batch, pending, cacheVars, moveVars>>

InitLegacy ==
    /\ isEnabled = TRUE
    /\ metricsDb = EmptyDb
    /\ InitCommon

NextLegacy ==
    \/ \E q \in LegacyProcs, d \in DeploymentKeys, c \in MoveClients, to \in MoveLabels :
          legacyRead(q, d, c, to)
    \/ \E q \in LegacyProcs : legacyUpdate(q)

SpecLegacy == InitLegacy /\ [][NextLegacy]_vars

(* ------------- the key derivations over any deployment keys ------------ *)
\* fragments deployment keys are built from: the separator and the words
\* the prefixes themselves are made of
KeyParts == {"A", ":", "Labels", "Clients", "deploymentKey"}

RECURSIVE KeyStrings(_)
KeyStrings(n) ==
    IF n = 0 THEN {""}
    ELSE KeyStrings(n - 1) \cup {s \o part : s \in KeyStrings(n - 1), part \in KeyParts}

\* the three keys Utilities derives for each of two deployment keys
deriveKeys(deploymentKey1, deploymentKey2) ==
    /\ lastOp' = Done("deriveKeys", <<deploymentKey1, deploymentKey2>>,
                      [scope |-> <<getDeploymentKeyHash(deploymentKey1),
                                   getDeploymentKeyHash(deploymentKey2)>>,
                       labels |-> <<getDeploymentKeyLabelsHash(deploymentKey1),
                                    getDeploymentKeyLabelsHash(deploymentKey2)>>,
                       clients |-> <<getDeploymentKeyClientsHash(deploymentKey1),
                                     getDeploymentKeyClientsHash(deploymentKey2)>>],
                      0)
    /\ UNCHANGED <<isEnabled, metricsDb, nOps, nInc, nCur, cacheVars, moveVars, scenarioVars>>

InitKeys ==
    /\ isEnabled = TRUE
    /\ metricsDb = EmptyDb
    /\ InitCommon

\* one pair of deployment keys per behaviour
NextKeys ==
    \E d1 \in KeyStrings(MaxKeyParts), d2 \in KeyStrings(MaxKeyParts) :
        lastOp = NoOp /\ deriveKeys(d1, d2)

SpecKeys == InitKeys /\ [][NextKeys]_vars

(* =============================== claims ================================ *)
ActiveField(l) == l \o ":Active"
StatusField(l, s) == l \o ":" \o s
LabelsKey(d) == "deploymentKeyLabels:" \o d
ClientsKey(d) == "deploymentKeyClients:" \o d
RealLabels == Labels \ {""}

\* the counter readMetrics(d) returns for a field, 0 when absent
Counter(db, d, f) == Count(getMetricsResult(db, d), f)

\* C1: a recordUpdate with a previous pair applies its three deltas in one
\* step of the store: after the step the current pair has Active +1 and
\* DeploymentSucceeded +1 and the previous pair has Active -1, all together
\* (when both pairs are the same counter the Active deltas cancel).
C1_BatchIndivisible ==
    [][LET d == lastOp'.args[1]
           l == lastOp'.args[2]
           pd == lastOp'.args[3]
           pl == lastOp'.args[4]
       IN  (/\ isEnabled
            /\ lastOp'.op = "recordUpdate"
            /\ l \in RealLabels /\ pd \in DeploymentKeys /\ pl \in RealLabels
            /\ recordUpdate(d, l, pd, pl)) =>
             /\ Counter(metricsDb', d, StatusField(l, "DeploymentSucceeded"))
                  = Counter(metricsDb, d, StatusField(l, "DeploymentSucceeded")) + 1
             /\ Counter(metricsDb', d, ActiveField(l))
                  = Counter(metricsDb, d, ActiveField(l)) + (IF <<pd, pl>> = <<d, l>> THEN 0 ELSE 1)
             /\ <<pd, pl>> # <<d, l>> =>
                  Counter(metricsDb', pd, ActiveField(pl)) = Counter(metricsDb, pd, ActiveField(pl)) - 1]_vars

\* a client counted at one pair has been moved to a pair of another deployment
C1_Witness ==
    /\ isEnabled
    /\ lastOp.op = "recordUpdate"
    /\ lastOp.args[3] \in DeploymentKeys /\ lastOp.args[4] \in RealLabels
    /\ lastOp.args[2] \in RealLabels
    /\ lastOp.args[1] # lastOp.args[3]
    /\ HGet(metricsDb, LabelsKey(lastOp.args[3]), ActiveField(lastOp.args[4])) = "0"
    /\ HGet(metricsDb, LabelsKey(lastOp.args[1]), ActiveField(lastOp.args[2])) = "1"

C3_EmptyLabelNoOp ==
    [][(/\ lastOp'.op = "recordUpdate"
        /\ lastOp'.args[2] = ""
        /\ recordUpdate(lastOp'.args[1], "", lastOp'.args[3], lastOp'.args[4]))
          => metricsDb' = metricsDb]_vars

\* C4: recordUpdate without a previous pair (key or label absent or empty)
\* raises currentLabel:Active and currentLabel:DeploymentSucceeded of the
\* current deployment by one and leaves every other field of every hash,
\* and every other key, as it was.
C4_TwoIncrementsOnly ==
    [][LET d == lastOp'.args[1]
           l == lastOp'.args[2]
           pd == lastOp'.args[3]
           pl == lastOp'.args[4]
           changed == {ActiveField(l), StatusField(l, "DeploymentSucceeded")}
       IN  (/\ isEnabled
            /\ lastOp'.op = "recordUpdate"
            /\ l \in RealLabels
            /\ ~(Truthy(pd) /\ Truthy(pl))
            /\ recordUpdate(d, l, pd, pl)) =>
             /\ Counter(metricsDb', d, ActiveField(l)) = Counter(metricsDb, d, ActiveField(l)) + 1
             /\ Counter(metricsDb', d, StatusField(l, "DeploymentSucceeded"))
                  = Counter(metricsDb, d, StatusField(l, "DeploymentSucceeded")) + 1
             /\ DOMAIN metricsDb' = DOMAIN metricsDb \cup {LabelsKey(d)}
             /\ \A k \in DOMAIN metricsDb \ {LabelsKey(d)} : metricsDb'[k] = metricsDb[k]
             /\ DOMAIN metricsDb'[LabelsKey(d)] = DOMAIN HashAt(metricsDb, LabelsKey(d)) \cup changed
             /\ \A f \in DOMAIN HashAt(metricsDb, LabelsKey(d)) \ changed :
                   metricsDb'[LabelsKey(d)][f] = metricsDb[LabelsKey(d)][f]]_vars

\* a previous deployment key was given without a previous label, while that
\* deployment had a client counted as active
C4_Witness ==
    /\ isEnabled
    /\ lastOp.op = "recordUpdate"
    /\ lastOp.args[2] \in RealLabels
    /\ lastOp.args[3] \in DeploymentKeys
    /\ ~Truthy(lastOp.args[4])
    /\ \E l \in RealLabels : HGet(metricsDb, LabelsKey(lastOp.args[3]), ActiveField(l)) = "1"

\* C5: the label:status counter readMetrics returns equals the number of
\* incrementLabelStatusCount calls of that counter completed since the last
\* clear (plus, for DeploymentSucceeded, the recordUpdate batches of that
\* pair); after two calls on an empty store the result is exactly {L:status: 2}.
C5_NoLostIncrement ==
    isEnabled =>
        \A d \in DeploymentKeys, l \in Labels, s \in ValidStatuses :
            /\ Counter(metricsDb, d, StatusField(l, s))
                 = nInc[<<d, l, s>>] + (IF s = "DeploymentSucceeded" THEN nCur[<<d, l>>] ELSE 0)
            /\ (nInc[<<d, l, s>>] = 2 /\ nOps = 2) =>
                 getMetricsResult(metricsDb, d) = [f \in {StatusField(l, s)} |-> Num(2)]

\* two increments of one counter on an empty store
C5_Witness ==
    /\ isEnabled
    /\ lastOp.op = "incrementLabelStatusCount"
    /\ \E d \in DeploymentKeys, l \in RealLabels, s \in ValidStatuses :
          /\ nInc[<<d, l, s>>] = 2 /\ nOps = 2
          /\ HGet(metricsDb, LabelsKey(d), StatusField(l, s)) = "2"

\* C6: incrementLabelStatusCount with a status outside the three valid ones
\* resolves and leaves both databases unchanged.
C6_InvalidStatusNoOp ==
    [][LET d == lastOp'.args[1]
           l == lastOp'.args[2]
           s == lastOp'.args[3]
       IN  (/\ lastOp'.op = "incrementLabelStatusCount"
            /\ s \notin ValidStatuses
            /\ incrementLabelStatusCount(d, l, s)) =>
             /\ metricsDb' = metricsDb
             /\ opsDb' = opsDb
             /\ getMetricsResult(metricsDb', d) = getMetricsResult(metricsDb, d)
             /\ lastOp'.result = Resolved(Undefined)]_vars

\* an invalid status was submitted against a deployment that has metrics
C6_Witness ==
    /\ isEnabled
    /\ lastOp.op = "incrementLabelStatusCount"
    /\ lastOp.args[3] \notin ValidStatuses
    /\ LabelsKey(lastOp.args[1]) \in DOMAIN metricsDb

\* C7: one step of clearMetricsForDeploymentKey removes the labels hash and
\* the clients hash together, and a getMetricsWithDeploymentKey that follows
\* it directly resolves to the empty mapping.
C7_ClearRemovesBoth ==
    [][LET d == lastOp'.args[1]
       IN  /\ (/\ isEnabled
               /\ lastOp'.op = "clearMetricsForDeploymentKey"
               /\ clearMetricsForDeploymentKey(d)) =>
                /\ LabelsKey(d) \notin DOMAIN metricsDb'
                /\ ClientsKey(d) \notin DOMAIN metricsDb'
           /\ (/\ isEnabled
               /\ lastOp.op = "clearMetricsForDeploymentKey"
               /\ lastOp'.op = "getMetricsWithDeploymentKey"
               /\ lastOp.args[1] = d
               /\ getMetricsWithDeploymentKey(d)) =>
                lastOp'.result = Resolved(EmptyHash)]_vars

\* a clear that found both hashes of the deployment and deleted them
C7_Witness ==
    /\ isEnabled
    /\ lastOp.op = "clearMetricsForDeploymentKey"
    /\ lastOp.reply = 2
    /\ LabelsKey(lastOp.args[1]) \notin DOMAIN metricsDb
    /\ ClientsKey(lastOp.args[1]) \notin DOMAIN metricsDb

\* C8 (as claimed): getMetricsWithDeploymentKey rejects when a value of the
\* labels hash is not an integer.
C8_MalformedRejected ==
    (/\ lastOp.op = "getMetricsWithDeploymentKey"
     /\ \E f \in DOMAIN HashAt(metricsDb, LabelsKey(lastOp.args[1])) :
           ~IsStoredInteger(metricsDb[LabelsKey(lastOp.args[1])][f]))
        => lastOp.result.kind = "rejected"

\* C9: once a setCachedResponse has completed, and as long as its entry has
\* not been written by another set since the call's write nor its scope key
\* invalidated or expired, getCachedResponse of that (scope key, url)
\* resolves to a value equal to the response that was set.
C9_SetThenGet ==
    \A e \in DOMAIN written :
        written[e].completed =>
            getCachedResponseResult(opsDb, e[1], e[2]) = Resolved(written[e].response)

\* a get has returned the nested response a completed set had stored
C9_Witness ==
    /\ lastOp.op = "getCachedResponse"
    /\ lastOp.args \in DOMAIN written
    /\ written[lastOp.args].completed
    /\ written[lastOp.args].response = ResponseOk
    /\ lastOp.result = Resolved(ResponseOk)

\* no setCachedResponse on scope key k is in flight
NoSetInFlight(k) == \A p \in SetProcs : setCall[p] = Idle \/ setCall[p].expiryKey # k

\* C10 (as claimed): every scope key of the store, once the sets on it are
\* over, has an expiry deadline, and the deadline is no later than 3600
\* seconds after the set that created the key finished: the entries of the
\* scope are gone by then.
C10_ScopeExpiresWithinWindow ==
    \A k \in DOMAIN opsDb :
        NoSetInFlight(k) =>
            /\ k \in DOMAIN expireAt
            /\ expireAt[k] <= born[k].settled + DEFAULT_EXPIRY

\* C11 (as claimed): once the sets on a scope key are over, exactly one
\* EXPIRE has been issued on the key since the HSET that created it: not
\* none, and not one per write.
C11_ExpireOncePerCreation ==
    \A k \in DOMAIN opsDb :
        NoSetInFlight(k) => born[k].expires = 1

\* C12 (as claimed): after an invalidateCache of a scope key has completed
\* and until a setCachedResponse on that key starts, getCachedResponse
\* resolves to null for every url the key held, also when sets on the key
\* were in flight while the invalidate ran.
C12_InvalidatedStaysAbsent ==
    \A k \in ScopeKeys :
        \A u \in purged[k] :
            getCachedResponseResult(opsDb, k, u) = Resolved(JNull)

\* C13: while the manager is disabled every call of the Cache Store and of
\* the Metrics Ledger resolves to its default (null for the reads, nothing
\* for the writes) having sent no command, both databases stay as they
\* were, and checkHealth is the one call that rejects.
C13_DisabledIsInert ==
    /\ [](~isEnabled =>
            /\ \A p \in SetProcs : setCall[p] = Idle
            /\ lastOp # NoOp =>
                 /\ lastOp.sent = 0
                 /\ lastOp.result.kind = "rejected" <=> lastOp.op = "checkHealth"
                 /\ lastOp.op \in {"getMetricsWithDeploymentKey", "getCurrentActiveLabel"} =>
                      lastOp.result = Resolved(Null)
                 /\ lastOp.op = "getCachedResponse" => lastOp.result = Resolved(JNull)
                 /\ lastOp.op \in {"setCachedResponse", "invalidateCache", "incrementLabelStatusCount",
                                   "recordUpdate", "removeDeploymentKeyClientActiveLabel",
                                   "clearMetricsForDeploymentKey", "updateActiveAppForClient"} =>
                      lastOp.result = Resolved(Undefined))
    /\ [][~isEnabled => UNCHANGED <<metricsDb, opsDb, expireAt>>]_vars

\* a disabled manager answered null for an entry the ops database holds
C13_Witness ==
    /\ ~isEnabled
    /\ lastOp.op = "getCachedResponse"
    /\ Truthy(HGet(opsDb, lastOp.args[1], lastOp.args[2]))
    /\ lastOp.result = Resolved(JNull)

\* C14: each of the three key derivations gives equal keys for equal
\* deployment keys and different keys for different deployment keys, and no
\* labels-hash key equals a clients-hash key, of the same or of another
\* deployment.
C14_KeysInjective ==
    lastOp.op = "deriveKeys" =>
        LET keys == lastOp.result
            same == lastOp.args[1] = lastOp.args[2]
        IN  /\ (keys.scope[1] = keys.scope[2]) <=> same
            /\ (keys.labels[1] = keys.labels[2]) <=> same
            /\ (keys.clients[1] = keys.clients[2]) <=> same
            /\ \A i \in 1..2, j \in 1..2 : keys.labels[i] # keys.clients[j]

\* the keys were derived for two deployment keys of which one is a prefix
\* word followed by the separator
C14_Witness ==
    /\ lastOp.op = "deriveKeys"
    /\ lastOp.args = <<"Labels:", "">>
    /\ lastOp.result.labels = <<"deploymentKeyLabels:Labels:", "deploymentKeyLabels:">>

\* the commands of the calls of the batch that have been sent
RECURSIVE SentCommands(_)
SentCommands(indices) ==
    IF indices = {} THEN <<>>
    ELSE LET i == CHOOSE x \in indices : TRUE
         IN  CallCommands(batch[i]) \o SentCommands(indices \ {i})

\* the sum of the deltas a sequence of commands applies to one counter
RECURSIVE SumDeltas(_, _, _)
SumDeltas(cmds, key, field) ==
    IF cmds = <<>> THEN 0
    ELSE (IF Head(cmds).key = key /\ Head(cmds).field = field THEN Head(cmds).delta ELSE 0)
         + SumDeltas(Tail(cmds), key, field)

\* C15: whatever the order in which the calls of a batch of
\* incrementLabelStatusCount and recordUpdate calls reach the store, the
\* metrics database is the same function of the set of calls sent: it holds
\* exactly the counters those calls touch, each equal to the sum of the
\* deltas they apply to it.
C15_OrderIndependent ==
    LET cmds == SentCommands(DOMAIN batch \ pending)
        touched == {<<cmds[n].key, cmds[n].field>> : n \in DOMAIN cmds}
    IN  /\ \A t \in touched : HGet(metricsDb, t[1], t[2]) = ToDecimal(SumDeltas(cmds, t[1], t[2]))
        /\ \A k \in DOMAIN metricsDb : \A f \in DOMAIN metricsDb[k] : <<k, f>> \in touched

\* three calls have all been sent, the last of them a batch that was handed
\* out first, two of them moving the same counter in opposite directions
C15_Witness ==
    /\ Len(batch) = 3 /\ pending = {}
    /\ batch[1] = Call("recordUpdate", <<"B", "v1", "A", "v1">>)
    /\ batch[3] = Call("recordUpdate", <<"A", "v1", Undefined, Undefined>>)
    /\ lastOp.op = "recordUpdate" /\ lastOp.args = batch[1].args
    /\ HGet(metricsDb, LabelsKey("A"), ActiveField("v1")) = "0"

\* C16: incrementLabelStatusCount, clearMetricsForDeploymentKey,
\* removeDeploymentKeyClientActiveLabel and getMetricsWithDeploymentKey of a
\* deployment D leave every key of the metrics database other than D's
\* labels and clients hashes as it was, and recordUpdate(D2, L2, D1, L1)
\* leaves every key other than the labels hashes of D2 and D1 as it was.
C16_NoCrossKeyInterference ==
    [][LET op == lastOp'.op
           a == lastOp'.args
           own == IF op \in {"incrementLabelStatusCount", "clearMetricsForDeploymentKey",
                             "removeDeploymentKeyClientActiveLabel", "getMetricsWithDeploymentKey"}
                  THEN {LabelsKey(a[1]), ClientsKey(a[1])}
                  ELSE {LabelsKey(a[1]), LabelsKey(a[3])}
       IN  op \in {"incrementLabelStatusCount", "clearMetricsForDeploymentKey",
                   "removeDeploymentKeyClientActiveLabel", "getMetricsWithDeploymentKey",
                   "recordUpdate"} =>
             \A k \in (DOMAIN metricsDb \cup DOMAIN metricsDb') \ own :
                 /\ k \in DOMAIN metricsDb /\ k \in DOMAIN metricsDb'
                 /\ metricsDb'[k] = metricsDb[k]]_vars

\* a call on deployment A has written to the store while deployment B had
\* its labels hash
C16_Witness ==
    /\ isEnabled
    /\ lastOp.op \in {"incrementLabelStatusCount", "recordUpdate"}
    /\ lastOp.args[1] = "A"
    /\ lastOp.sent = IF lastOp.op = "recordUpdate" THEN 2 ELSE 1
    /\ LabelsKey("B") \in DOMAIN metricsDb
    /\ LabelsKey("A") \in DOMAIN metricsDb

\* C17: the HSET of a setCachedResponse replaces whatever its (scope key,
\* url) held and changes no other url of the scope key and no other scope
\* key, the other steps of the call change no value at all, and
\* getCachedResponse resolves to the response last written to a (scope
\* key, url) as long as the key has not been invalidated or expired.
C17_SetOverwritesOwnFieldOnly ==
    /\ [](\A e \in DOMAIN written :
             getCachedResponseResult(opsDb, e[1], e[2]) = Resolved(written[e].response))
    /\ [][\A p \in SetProcs :
             /\ (setCall[p].pc = "hset" /\ setCall'[p] # setCall[p]) =>
                  /\ HGet(opsDb', setCall[p].expiryKey, setCall[p].url) = setCall[p].serialized
                  /\ \A k \in ScopeKeys, u \in Urls :
                        <<k, u>> # <<setCall[p].expiryKey, setCall[p].url>> =>
                            HGet(opsDb', k, u) = HGet(opsDb, k, u)
                  /\ DOMAIN opsDb' = DOMAIN opsDb \cup {setCall[p].expiryKey}
             /\ (setCall[p].pc # "hset" /\ setCall'[p] # setCall[p]) => opsDb' = opsDb]_vars

\* a set that found the scope key present has replaced the response another
\* call had stored under the same url
C17_Witness ==
    /\ lastOp.op = "setCachedResponse"
    /\ lastOp.args = <<"deploymentKey:A", "/a">>
    /\ lastOp.sent = 2
    /\ DOMAIN HashAt(opsDb, "deploymentKey:A") = {"/a"}
    /\ written[lastOp.args].by = "p2"
    /\ written[lastOp.args].response = ResponseNotFound
    /\ born["deploymentKey:A"].by = "p1"

\* C18 (as claimed): every scope key the ops database holds while no
\* setCachedResponse on it is in flight has an expiry deadline.
C18_ScopeKeyHasExpiry ==
    \A k \in DOMAIN opsDb :
        NoSetInFlight(k) => k \in DOMAIN expireAt

\* the clients that have been assigned a (deployment, label)
Assigned == {c \in MoveClients : where[c] # NoClient}

\* C19: when every recordUpdate passes the pair its client was counted at
\* (none on the first assignment) and the metrics are never cleared, the
\* Active counters of all deployments add up to the number of clients
\* assigned so far, the Active counter of each (deployment, label) is the
\* number of clients now at that pair, and no Active counter is negative.
C19_ActiveConserved ==
    /\ SumActive(getMetricsResult(metricsDb, "A")) + SumActive(getMetricsResult(metricsDb, "B"))
         = Cardinality(Assigned)
    /\ \A d \in DeploymentKeys, l \in MoveLabels :
          /\ Counter(metricsDb, d, ActiveField(l)) = Cardinality({c \in Assigned : where[c] = <<d, l>>})
          /\ Counter(metricsDb, d, ActiveField(l)) >= 0

\* both clients are assigned, at different pairs, and a pair a client has
\* left is back at zero
C19_Witness ==
    /\ Assigned = MoveClients
    /\ where["c1"] # where["c2"]
    /\ lastOp.op = "recordUpdate" /\ lastOp.sent = 3
    /\ \E d \in DeploymentKeys, l \in MoveLabels :
          HGet(metricsDb, LabelsKey(d), ActiveField(l)) = "0"

\* C20 (as claimed): once the read-then-update sequences of the legacy
\* path are over, the Active counter of every (deployment, label) equals
\* the number of clients the clients hash of the deployment maps to the
\* label.
C20_LegacyCountsMatchClients ==
    (\A q \in LegacyProcs : legacyCall[q] = Idle) =>
        \A d \in DeploymentKeys, l \in MoveLabels :
            Counter(metricsDb, d, ActiveField(l))
              = Cardinality({c \in MoveClients : HGet(metricsDb, ClientsKey(d), c) = l})

====
